---- MODULE Spec2Model ----
(***************************************************************************)
(* A model of src/app.py: the vessel quality verification pipeline.        *)
(*                                                                         *)
(* Python strings are modelled as sequences of one-character strings, so   *)
(* that substring search, upper(), strip(), replace(), slicing and the     *)
(* similarity ratio are computed character by character as the code does.  *)
(* Python values are records tagged by their type in field k:              *)
(*   [k |-> "str", s |-> <<chars>>]   a str                                *)
(*   [k |-> "int", m |-> n]           an int                               *)
(*   [k |-> "float", m |-> n, e |-> d] the finite float n / 10^d           *)
(*   [k |-> "nan"]                    the float NaN (pandas' blank cell)   *)
(*   [k |-> "none"]                   None                                 *)
(***************************************************************************)
EXTENDS Integers, Sequences, FiniteSets, TLC

VARIABLES
    fn,               \* helper under test in the helper specifications
    arg,              \* its argument(s)
    ret,              \* its return value, Pending before the call
    vessel_xls,       \* the vessel workbook: sequence of [name, raw]
    std_xls,          \* the standards workbook: sequence of [key, df]
    pc,               \* position of process_vessel_file
    sheet_i,          \* index of the sheet the for loop of line 64 is at
    row_i,            \* index of the row the for loop of line 94 is at
    table,            \* cleaned table of the current sheet
    product,          \* product label of the current sheet
    std_df,           \* matched standards table of the current sheet
    hdip_col,         \* primary result column of the current sheet
    load_col,         \* secondary result column of the current sheet
    passed,
    failed,
    failed_tests,
    detailed_data,
    summary,          \* list of summary rows
    detailed_results, \* dict sheet name -> detail rows, in insertion order
    output            \* the written workbook: sequence of [title, rows]

vars == <<fn, arg, ret, vessel_xls, std_xls, pc, sheet_i, row_i, table, product,
          std_df, hdip_col, load_col, passed, failed, failed_tests,
          detailed_data, summary, detailed_results, output>>

engineVars == <<vessel_xls, std_xls, pc, sheet_i, row_i, table, product,
                std_df, hdip_col, load_col, passed, failed, failed_tests,
                detailed_data, summary, detailed_results, output>>

helperVars == <<fn, arg, ret>>

-----------------------------------------------------------------------------
(* Characters and strings                                                  *)

\* The characters the model uses, in increasing code point order.
CodeOrder ==
    <<"\n", " ", ",", "-", ".", "/",
      "0", "1", "2", "3", "4", "5", "6", "7", "8", "9", "<", ">",
      "A", "B", "C", "D", "E", "F", "G", "H", "I", "J", "K", "L", "M",
      "N", "O", "P", "Q", "R", "S", "T", "U", "V", "W", "X", "Y", "Z",
      "a", "b", "c", "d", "e", "f", "g", "h", "i", "j", "k", "l", "m",
      "n", "o", "p", "q", "r", "s", "t", "u", "v", "w", "x", "y", "z">>

Uppers == SubSeq(CodeOrder, 19, 44)
Lowers == SubSeq(CodeOrder, 45, 70)
Digits == SubSeq(CodeOrder, 7, 16)
Whitespace == {" ", "\n"}

Min2(x, y) == IF x <= y THEN x ELSE y
SetMax(S) == CHOOSE x \in S : \A y \in S : y <= x
SetMin(S) == CHOOSE x \in S : \A y \in S : x <= y

IndexIn(c, seq) == CHOOSE i \in 1..Len(seq) : seq[i] = c
InSeq(c, seq) == \E i \in 1..Len(seq) : seq[i] = c

Ord(c) == IndexIn(c, CodeOrder)

\* str.upper() and str.lower()
UpperChar(c) == IF InSeq(c, Lowers) THEN Uppers[IndexIn(c, Lowers)] ELSE c
LowerChar(c) == IF InSeq(c, Uppers) THEN Lowers[IndexIn(c, Uppers)] ELSE c
Upper(s) == [i \in 1..Len(s) |-> UpperChar(s[i])]
Lower(s) == [i \in 1..Len(s) |-> LowerChar(s[i])]

\* sub in s
StartsAt(s, sub, i) ==
    /\ i >= 1
    /\ i + Len(sub) - 1 <= Len(s)
    /\ \A k \in 1..Len(sub) : s[i + k - 1] = sub[k]
Contains(s, sub) == \E i \in 1..(Len(s) + 1) : StartsAt(s, sub, i)

\* s.replace(c, "") for a one-character c
RemoveChar(s, c) == SelectSeq(s, LAMBDA x : x # c)
\* s.replace(c, d) for one-character c and d
ReplaceChar(s, c, d) == [i \in 1..Len(s) |-> IF s[i] = c THEN d ELSE s[i]]

\* s.strip()
RECURSIVE LStrip(_)
LStrip(s) == IF s # <<>> /\ Head(s) \in Whitespace THEN LStrip(Tail(s)) ELSE s
RECURSIVE RStrip(_)
RStrip(s) ==
    IF s # <<>> /\ s[Len(s)] \in Whitespace
    THEN RStrip(SubSeq(s, 1, Len(s) - 1)) ELSE s
Strip(s) == RStrip(LStrip(s))

\* s < t, the code point order of Python's str comparison
RECURSIVE StrLess(_, _)
StrLess(s, t) ==
    IF t = <<>> THEN FALSE
    ELSE IF s = <<>> THEN TRUE
    ELSE IF Head(s) # Head(t) THEN Ord(Head(s)) < Ord(Head(t))
    ELSE StrLess(Tail(s), Tail(t))

\* sep.join(parts)
RECURSIVE Join(_, _)
Join(sep, parts) ==
    IF parts = <<>> THEN <<>>
    ELSE IF Len(parts) = 1 THEN parts[1]
    ELSE parts[1] \o sep \o Join(sep, Tail(parts))

-----------------------------------------------------------------------------
(* Python values                                                           *)

None == [k |-> "none"]
Pending == [k |-> "pending"]
NaN == [k |-> "nan"]
Str(s) == [k |-> "str", s |-> s]
IntVal(n) == [k |-> "int", m |-> n]

RECURSIVE Pow10(_)
Pow10(n) == IF n = 0 THEN 1 ELSE 10 * Pow10(n - 1)

\* The float m / 10^e, in lowest terms of the power of ten.
RECURSIVE Float(_, _)
Float(m, e) ==
    IF e > 0 /\ m % 10 = 0 THEN Float(m \div 10, e - 1)
    ELSE [k |-> "float", m |-> m, e |-> e]

\* isinstance(v, (int, float)): NaN is a float.
IsNumber(v) == v.k \in {"int", "float", "nan"}

\* a < b on floats: every comparison with NaN is False.
Lt(a, b) ==
    /\ a.k = "float"
    /\ b.k = "float"
    /\ a.m * Pow10(b.e) < b.m * Pow10(a.e)
Gt(a, b) == Lt(b, a)

-----------------------------------------------------------------------------
(* clean_numeric                                                           *)

IsDigits(s) == \A i \in 1..Len(s) : InSeq(s[i], Digits)

RECURSIVE DigitsValue(_)
DigitsValue(s) ==
    IF s = <<>> THEN 0
    ELSE 10 * DigitsValue(SubSeq(s, 1, Len(s) - 1))
         + (IndexIn(s[Len(s)], Digits) - 1)

\* The unsigned decimal forms of float(str): digits, digits "." [digits],
\* "." digits.  (The model's texts hold no exponent and no "_" grouping.)
IsDecimal(s) ==
    \/ s # <<>> /\ IsDigits(s)
    \/ \E p \in 1..Len(s) :
        /\ s[p] = "."
        /\ IsDigits(SubSeq(s, 1, p - 1))
        /\ IsDigits(SubSeq(s, p + 1, Len(s)))
        /\ Len(s) > 1

DecimalValue(s) ==
    IF IsDigits(s) THEN Float(DigitsValue(s), 0)
    ELSE LET p == CHOOSE q \in 1..Len(s) : s[q] = "."
             ip == SubSeq(s, 1, p - 1)
             fp == SubSeq(s, p + 1, Len(s))
         IN Float(DigitsValue(ip) * Pow10(Len(fp)) + DigitsValue(fp), Len(fp))

Negate(v) == IF v.k = "float" THEN Float(0 - v.m, v.e) ELSE v

\* float(s) for a str s; None stands for the ValueError the caller catches.
UnsignedFloat(s) ==
    IF IsDecimal(s) THEN DecimalValue(s)
    ELSE IF Lower(s) = <<"n", "a", "n">> THEN NaN
    ELSE None

ParseFloat(s) ==
    LET t == Strip(s) IN
    IF t # <<>> /\ Head(t) = "-" THEN Negate(UnsignedFloat(Tail(t)))
    ELSE UnsignedFloat(t)

clean_numeric(val) ==
    IF val.k = "str"
    THEN ParseFloat(Strip(RemoveChar(RemoveChar(val.s, "<"), ">")))
    ELSE IF val.k = "int" THEN Float(val.m, 0)
    ELSE IF val.k = "float" THEN val
    ELSE IF val.k = "nan" THEN NaN
    ELSE None

-----------------------------------------------------------------------------
(* compare_value                                                           *)

\* compare_value with the bounds excluded from the range.
compare_value_exclusive(test_val, min_val, max_val) ==
    IF min_val # None /\ ~Gt(test_val, min_val) THEN FALSE
    ELSE IF max_val # None /\ ~Lt(test_val, max_val) THEN FALSE
    ELSE TRUE

compare_value(test_val, min_val, max_val) ==
    IF min_val # None /\ Lt(test_val, min_val) THEN FALSE
    ELSE IF max_val # None /\ Gt(test_val, max_val) THEN FALSE
    ELSE TRUE

-----------------------------------------------------------------------------
(* extract_product_from_sheetname                                          *)

MOGAS == <<"M", "O", "G", "A", "S">>
RON == <<"R", "O", "N">>
HSD == <<"H", "S", "D">>
DIESEL == <<"D", "I", "E", "S", "E", "L">>
JET == <<"J", "E", "T">>
FUEL == <<"F", "U", "E", "L">>
HOBC == <<"H", "O", "B", "C">>
OCTANE == <<"O", "C", "T", "A", "N", "E">>
UNKNOWN == <<"U", "N", "K", "N", "O", "W", "N">>
MOGAS_92_RON == MOGAS \o <<" ", "9", "2", " ">> \o RON
MOGAS_95_RON == MOGAS \o <<" ", "9", "5", " ">> \o RON
JET_FUEL == JET \o <<" ">> \o FUEL

\* The last index of a match of  a.*b  that starts at i, or 0: "." matches
\* every character but a newline and ".*" is greedy.
WildEnd(s, a, b, i) ==
    LET js == {j \in (i + Len(a))..Len(s) :
                  /\ StartsAt(s, b, j)
                  /\ \A k \in (i + Len(a))..(j - 1) : s[k] # "\n"}
    IN IF StartsAt(s, a, i) /\ js # {}
       THEN (CHOOSE j \in js : \A j2 \in js : j2 <= j) + Len(b) - 1
       ELSE 0

LitEnd(s, a, i) == IF StartsAt(s, a, i) THEN i + Len(a) - 1 ELSE 0

\* The last index of the match of
\*   (MOGAS.*RON|JET.*FUEL|HSD|DIESEL|HOBC|OCTANE)
\* at position i, alternatives tried in order, or 0.
PatternEnd(s, i) ==
    IF WildEnd(s, MOGAS, RON, i) # 0 THEN WildEnd(s, MOGAS, RON, i)
    ELSE IF WildEnd(s, JET, FUEL, i) # 0 THEN WildEnd(s, JET, FUEL, i)
    ELSE IF LitEnd(s, HSD, i) # 0 THEN LitEnd(s, HSD, i)
    ELSE IF LitEnd(s, DIESEL, i) # 0 THEN LitEnd(s, DIESEL, i)
    ELSE IF LitEnd(s, HOBC, i) # 0 THEN LitEnd(s, HOBC, i)
    ELSE LitEnd(s, OCTANE, i)

\* re.search(pattern, s): the leftmost match; group(1), or None.
MatchFrom(s, is) ==
    IF is = {} THEN None
    ELSE Str(SubSeq(s, SetMin(is), PatternEnd(s, SetMin(is))))
re_search(s) == MatchFrom(s, {i \in 1..Len(s) : PatternEnd(s, i) # 0})

\* Line 28
GroupOrUnknown(match) == IF match # None THEN Strip(match.s) ELSE UNKNOWN

\* Lines 18-28 with the HSD rule tried before the MOGAS rule.
ProductOfHsdFirst(sheet_upper) ==
    IF Contains(sheet_upper, HSD) \/ Contains(sheet_upper, DIESEL)
    THEN HSD
    ELSE IF Contains(sheet_upper, MOGAS)
    THEN IF Contains(sheet_upper, <<"9", "2">>) THEN MOGAS_92_RON
         ELSE MOGAS_95_RON
    ELSE IF Contains(sheet_upper, JET) THEN JET_FUEL
    ELSE IF Contains(sheet_upper, HOBC) \/ Contains(sheet_upper, OCTANE)
    THEN HOBC
    ELSE GroupOrUnknown(re_search(sheet_upper))

\* Lines 18-28 without the JET rule of lines 22-23.
ProductOfNoJetRule(sheet_upper) ==
    IF Contains(sheet_upper, MOGAS)
    THEN IF Contains(sheet_upper, <<"9", "2">>) THEN MOGAS_92_RON
         ELSE MOGAS_95_RON
    ELSE IF Contains(sheet_upper, HSD) \/ Contains(sheet_upper, DIESEL)
    THEN HSD
    ELSE IF Contains(sheet_upper, HOBC) \/ Contains(sheet_upper, OCTANE)
    THEN HOBC
    ELSE GroupOrUnknown(re_search(sheet_upper))

\* Lines 18-28 on the upper-cased name.
ProductOf(sheet_upper) ==
    IF Contains(sheet_upper, MOGAS)
    THEN IF Contains(sheet_upper, <<"9", "2">>) THEN MOGAS_92_RON
         ELSE MOGAS_95_RON
    ELSE IF Contains(sheet_upper, HSD) \/ Contains(sheet_upper, DIESEL)
    THEN HSD
    ELSE IF Contains(sheet_upper, JET) THEN JET_FUEL
    ELSE IF Contains(sheet_upper, HOBC) \/ Contains(sheet_upper, OCTANE)
    THEN HOBC
    ELSE GroupOrUnknown(re_search(sheet_upper))

extract_product_from_sheetname(sheet_name) == ProductOf(Upper(sheet_name))

-----------------------------------------------------------------------------
(* difflib.get_close_matches, as called at lines 71 and 101                *)
(* (strings shorter than 200 characters: no automatic junk)                *)

\* Cutoffs in tenths.
ProductCutoff == 4
TestCutoff == 6

\* Length of the common run of a[i..ahi] and b[j..bhi] that starts at (i, j).
RECURSIVE RunLen(_, _, _, _, _, _)
RunLen(a, b, i, j, ahi, bhi) ==
    IF i > ahi \/ j > bhi \/ a[i] # b[j] THEN 0
    ELSE 1 + RunLen(a, b, i + 1, j + 1, ahi, bhi)

\* SequenceMatcher.find_longest_match on a[alo..ahi], b[blo..bhi]: the longest
\* matching block; of those the one starting earliest in a, and of those the
\* one starting earliest in b.  <<i, j, k>>, k = 0 when nothing matches.
BlockIn(a, b, ahi, blo, bhi, k, i) ==
    <<i, SetMin({j \in blo..bhi : RunLen(a, b, i, j, ahi, bhi) = k}), k>>
BlockOfSize(a, b, alo, ahi, blo, bhi, k) ==
    IF k = 0 THEN <<alo, blo, 0>>
    ELSE BlockIn(a, b, ahi, blo, bhi, k,
                 SetMin({i \in alo..ahi :
                            \E j \in blo..bhi :
                                RunLen(a, b, i, j, ahi, bhi) = k}))
find_longest_match(a, b, alo, ahi, blo, bhi) ==
    BlockOfSize(a, b, alo, ahi, blo, bhi,
                SetMax({RunLen(a, b, p[1], p[2], ahi, bhi) :
                           p \in (alo..ahi) \X (blo..bhi)} \cup {0}))

\* Sum of the sizes of SequenceMatcher.get_matching_blocks: the block m, then
\* the pieces to its left and to its right.
RECURSIVE MatchCount(_, _, _, _, _, _)
AroundBlock(a, b, alo, ahi, blo, bhi, m) ==
    IF m[3] = 0 THEN 0
    ELSE m[3] + MatchCount(a, b, alo, m[1] - 1, blo, m[2] - 1)
              + MatchCount(a, b, m[1] + m[3], ahi, m[2] + m[3], bhi)
MatchCount(a, b, alo, ahi, blo, bhi) ==
    IF alo > ahi \/ blo > bhi THEN 0
    ELSE AroundBlock(a, b, alo, ahi, blo, bhi,
                     find_longest_match(a, b, alo, ahi, blo, bhi))

\* _calculate_ratio: the score 2.0 * matches / length as the fraction
\* <<numerator, denominator>>; 1.0 when length is 0.
calculate_ratio(matches, length) ==
    IF length > 0 THEN <<2 * matches, length>> ELSE <<1, 1>>

ratio(a, b) ==
    calculate_ratio(MatchCount(a, b, 1, Len(a), 1, Len(b)), Len(a) + Len(b))

CountOf(c, s) == Cardinality({i \in 1..Len(s) : s[i] = c})
RECURSIVE SumMin(_, _, _)
SumMin(cs, a, b) ==
    IF cs = {} THEN 0
    ELSE LET c == CHOOSE x \in cs : TRUE
         IN Min2(CountOf(c, a), CountOf(c, b)) + SumMin(cs \ {c}, a, b)
quick_ratio(a, b) ==
    calculate_ratio(SumMin({a[i] : i \in 1..Len(a)}, a, b), Len(a) + Len(b))
real_quick_ratio(a, b) ==
    calculate_ratio(Min2(Len(a), Len(b)), Len(a) + Len(b))

\* score >= cutoff / 10, score < other, score = other
AtLeast(score, cutoff) == 10 * score[1] >= cutoff * score[2]
ScoreLess(p, q) == p[1] * q[2] < q[1] * p[2]
ScoreEq(p, q) == p[1] * q[2] = q[1] * p[2]

\* (score, x) < (score2, x2), Python's tuple order
PairLess(p, q) ==
    \/ ScoreLess(p.score, q.score)
    \/ ScoreEq(p.score, q.score) /\ StrLess(p.x, q.x)

\* heapq.nlargest(1, result): max(result), as a list.
nlargest(result) ==
    IF result = {} THEN <<>>
    ELSE <<(CHOOSE p \in result : \A q \in result : ~PairLess(p, q)).x>>

\* get_close_matches keeping only the scores above the cutoff.
Above(score, cutoff) == 10 * score[1] > cutoff * score[2]
get_close_matches_above(word, possibilities, cutoff) ==
    nlargest({[score |-> ratio(possibilities[i], word),
               x |-> possibilities[i]] :
                 i \in {n \in 1..Len(possibilities) :
                           Above(ratio(possibilities[n], word), cutoff)}})

\* get_close_matches(word, possibilities, n=1, cutoff): the list of results,
\* empty or of one string.
get_close_matches(word, possibilities, cutoff) ==
    nlargest({[score |-> ratio(possibilities[i], word),
               x |-> possibilities[i]] :
                 i \in {n \in 1..Len(possibilities) :
                    /\ AtLeast(real_quick_ratio(possibilities[n], word), cutoff)
                    /\ AtLeast(quick_ratio(possibilities[n], word), cutoff)
                    /\ AtLeast(ratio(possibilities[n], word), cutoff)}})

-----------------------------------------------------------------------------
(* pandas helpers used by the code                                         *)

RECURSIVE ToDigits(_)
ToDigits(n) ==
    IF n < 10 THEN <<Digits[n + 1]>>
    ELSE ToDigits(n \div 10) \o <<Digits[(n % 10) + 1]>>

RECURSIVE PadLeft(_, _)
PadLeft(s, n) == IF Len(s) >= n THEN s ELSE PadLeft(<<"0">> \o s, n)

Abs(n) == IF n < 0 THEN 0 - n ELSE n
SignOf(n) == IF n < 0 THEN <<"-">> ELSE <<>>

\* str(x)
PyStr(x) ==
    IF x.k = "str" THEN x.s
    ELSE IF x.k = "int" THEN SignOf(x.m) \o ToDigits(Abs(x.m))
    ELSE IF x.k = "float"
    THEN IF x.e = 0 THEN SignOf(x.m) \o ToDigits(Abs(x.m)) \o <<".", "0">>
         ELSE SignOf(x.m) \o ToDigits(Abs(x.m) \div Pow10(x.e)) \o <<".">>
              \o PadLeft(ToDigits(Abs(x.m) % Pow10(x.e)), x.e)
    ELSE IF x.k = "nan" THEN <<"n", "a", "n">>
    ELSE <<"N", "o", "n", "e">>

\* pd.notna(x)
notna(x) == x.k \notin {"nan", "none"}

DESCRIPTION == <<"d", "e", "s", "c", "r", "i", "p", "t", "i", "o", "n">>
METHOD == <<"m", "e", "t", "h", "o", "d">>
RESULT == <<"r", "e", "s", "u", "l", "t">>
HDIP == <<"h", "d", "i", "p">>
LOAD == <<"l", "o", "a", "d">>
TESTS_DESCRIPTION ==
    <<"T", "e", "s", "t", "s", " ", "D", "e", "s", "c", "r", "i", "p", "t",
      "i", "o", "n">>
SUMMARY == <<"S", "u", "m", "m", "a", "r", "y">>

-----------------------------------------------------------------------------
(* find_table_start and clean_table                                        *)

StrAll(cells) == [i \in 1..Len(cells) |-> PyStr(cells[i])]
RowStr(row) == Lower(Join(<<" ">>, StrAll(SelectSeq(row, notna))))

IsHeaderRow(row_str) ==
    Contains(row_str, DESCRIPTION) \/ Contains(row_str, METHOD)

\* The index of the first row that holds "description" or "method", or 0
\* for None.
FirstOrNone(hits) == IF hits = {} THEN 0 ELSE SetMin(hits)
find_table_start(df) ==
    FirstOrNone({i \in 1..Len(df) : IsHeaderRow(RowStr(df[i]))})

AllNa(row) == \A i \in 1..Len(row) : ~notna(row[i])

\* Lines 47-54: the cleaned table [columns, rows], or None.
TableFrom(df, start_row) ==
    IF start_row = 0 THEN None
    ELSE [k |-> "table",
          columns |-> [i \in 1..Len(df[start_row]) |->
                          ReplaceChar(Strip(PyStr(df[start_row][i])),
                                      "\n", " ")],
          rows |-> SelectSeq(SubSeq(df, start_row + 1, Len(df)),
                             LAMBDA r : ~AllNa(r))]
clean_table(df) == TableFrom(df, find_table_start(df))

\* row.get(name, default): the value in the first column of that name.
RowGet(columns, row, name, default) ==
    LET is == {i \in 1..Len(columns) : columns[i] = name}
    IN IF is = {} THEN default ELSE row[SetMin(is)]

-----------------------------------------------------------------------------
(* process_vessel_file: the per-sheet setup of lines 64-88                 *)

\* list(std_xls.keys())
Keys(xls) == [i \in 1..Len(xls) |-> xls[i].key]
\* std_xls[key]
Lookup(xls, key) ==
    xls[SetMin({i \in 1..Len(xls) : xls[i].key = key})].df

IsHdipCol(c) == Contains(Lower(c), HDIP) /\ Contains(Lower(c), RESULT)
IsLoadCol(c) == Contains(Lower(c), LOAD) /\ Contains(Lower(c), RESULT)
IsResultCol(c) == Contains(Lower(c), RESULT)

\* Lines 76-88 without the fallback of lines 79-85.
PickColumnsNoFallback(hdip_cols, load_cols, possible_cols) ==
    IF hdip_cols = <<>>
    THEN [ok |-> FALSE, hdip_col |-> None, load_col |-> None]
    ELSE [ok |-> TRUE, hdip_col |-> Str(hdip_cols[1]),
          load_col |-> IF load_cols # <<>> THEN Str(load_cols[1]) ELSE None]

\* Lines 76-88: [ok, hdip_col, load_col]; ok = FALSE is the continue of
\* line 85.  A column that is None is [k |-> "none"].
PickColumns(hdip_cols, load_cols, possible_cols) ==
    IF hdip_cols = <<>>
    THEN IF Len(possible_cols) >= 2
         THEN [ok |-> TRUE, hdip_col |-> Str(possible_cols[1]),
               load_col |-> Str(possible_cols[2])]
         ELSE IF Len(possible_cols) = 1
         THEN [ok |-> TRUE, hdip_col |-> Str(possible_cols[1]),
               load_col |-> None]
         ELSE [ok |-> FALSE, hdip_col |-> None, load_col |-> None]
    ELSE [ok |-> TRUE, hdip_col |-> Str(hdip_cols[1]),
          load_col |-> IF load_cols # <<>> THEN Str(load_cols[1]) ELSE None]
ResultColumns(columns) ==
    PickColumns(SelectSeq(columns, IsHdipCol), SelectSeq(columns, IsLoadCol),
                SelectSeq(columns, IsResultCol))

Sheet == vessel_xls[sheet_i]
CurTable == clean_table(Sheet.raw)
CurProduct == extract_product_from_sheetname(Sheet.name)
CurMatch == get_close_matches(CurProduct, Keys(std_xls), ProductCutoff)

NextSheetVars ==
    /\ sheet_i' = sheet_i + 1
    /\ UNCHANGED <<vessel_xls, std_xls, pc, row_i, table, product, std_df,
                   hdip_col, load_col, passed, failed, failed_tests,
                   detailed_data, summary, detailed_results, output>>

\* Lines 65-68: no table in the sheet.
SkipNoTable ==
    /\ pc = "sheets"
    /\ sheet_i <= Len(vessel_xls)
    /\ CurTable = None
    /\ NextSheetVars
    /\ UNCHANGED helperVars

\* Lines 70-73: no standards table for the product.
SkipNoStandard ==
    /\ pc = "sheets"
    /\ sheet_i <= Len(vessel_xls)
    /\ CurTable # None
    /\ CurMatch = <<>>
    /\ NextSheetVars
    /\ UNCHANGED helperVars

\* Lines 76-85: no result column.
SkipNoResultColumn ==
    /\ pc = "sheets"
    /\ sheet_i <= Len(vessel_xls)
    /\ \E t \in {CurTable} :
        /\ t # None
        /\ CurMatch # <<>>
        /\ ~ResultColumns(t.columns).ok
    /\ NextSheetVars
    /\ UNCHANGED helperVars

\* Lines 65-92: the sheet is accepted and its row loop starts.
BeginSheet ==
    /\ pc = "sheets"
    /\ sheet_i <= Len(vessel_xls)
    /\ \E t \in {CurTable} :
        /\ t # None
        /\ \E match \in {CurMatch} :
            /\ match # <<>>
            /\ \E cols \in {ResultColumns(t.columns)} :
                /\ cols.ok
                /\ table' = t
                /\ std_df' = Lookup(std_xls, match[1])
                /\ hdip_col' = cols.hdip_col
                /\ load_col' = cols.load_col
    /\ product' = CurProduct
    /\ passed' = 0
    /\ failed' = 0
    /\ failed_tests' = <<>>
    /\ detailed_data' = <<>>
    /\ row_i' = 1
    /\ pc' = "rows"
    /\ UNCHANGED <<vessel_xls, std_xls, sheet_i, summary, detailed_results,
                   output>>
    /\ UNCHANGED helperVars

-----------------------------------------------------------------------------
(* process_vessel_file: the row loop of lines 94-118                       *)

PASS == <<"P", "A", "S", "S">>
FAIL == <<"F", "A", "I", "L">>

\* std_df["Parameter"].astype(str)
Parameters(df) == [i \in 1..Len(df) |-> PyStr(df[i].Parameter)]

\* std_df[std_df["Parameter"] == name].iloc[0]
SpecRow(df, name) ==
    df[SetMin({i \in 1..Len(df) : df[i].Parameter = Str(name)})]

\* Lines 110-113: checked says whether the branch of line 110 is taken, ok
\* is compare_value's result and detail the row appended at line 113.
Judge(test_name, hdip_val, load_val, min_val, max_val, unit, ok) ==
    IF IsNumber(hdip_val) /\ (min_val # None \/ max_val # None)
    THEN [skip |-> FALSE, checked |-> TRUE, ok |-> ok,
          detail |-> [Test |-> test_name, HDIP |-> hdip_val,
                      Load |-> load_val, Min |-> min_val, Max |-> max_val,
                      Unit |-> unit, Status |-> IF ok THEN PASS ELSE FAIL]]
    ELSE [skip |-> FALSE, checked |-> FALSE]

\* Lines 106-111
WithBounds(test_name, hdip_val, load_val, min_val, max_val, unit) ==
    Judge(test_name, hdip_val, load_val, min_val, max_val, unit,
          compare_value(hdip_val, min_val, max_val))

\* Lines 105-108
WithSpecRow(test_name, hdip_val, load_val, std_row) ==
    WithBounds(test_name, hdip_val, load_val, clean_numeric(std_row.Min),
               clean_numeric(std_row.Max), std_row.Unit)

\* Lines 96-105: skip is TRUE at the continue of line 97 or 103.
WithMatch(test_name, hdip_val, load_val, df, match_test) ==
    IF test_name = <<>> \/ match_test = <<>>
    THEN [skip |-> TRUE, checked |-> FALSE]
    ELSE WithSpecRow(test_name, hdip_val, load_val, SpecRow(df, match_test[1]))

\* Lines 99-101
WithName(test_name, hdip_val, load_val, df) ==
    WithMatch(test_name, hdip_val, load_val, df,
              get_close_matches(test_name, Parameters(df), TestCutoff))

\* Lines 95-113 for one row: what the row does.
EvalRow(columns, row, hcol, lcol, df) ==
    WithName(Strip(PyStr(RowGet(columns, row, TESTS_DESCRIPTION, Str(<<>>)))),
             clean_numeric(RowGet(columns, row, hcol.s, None)),
             IF lcol # None
             THEN clean_numeric(RowGet(columns, row, lcol.s, None))
             ELSE None,
             df)

\* Lines 114-118 with the test name listed whatever the result.
TallyListsEveryTest(ok, p, f, ft, test_name) ==
    IF ok THEN [passed |-> p + 1, failed |-> f,
                failed_tests |-> Append(ft, test_name)]
    ELSE [passed |-> p, failed |-> f + 1,
          failed_tests |-> Append(ft, test_name)]

\* Lines 114-118: the counters after a checked row.
Tally(ok, p, f, ft, test_name) ==
    IF ok THEN [passed |-> p + 1, failed |-> f, failed_tests |-> ft]
    ELSE [passed |-> p, failed |-> f + 1,
          failed_tests |-> Append(ft, test_name)]

ProcessRow ==
    /\ pc = "rows"
    /\ row_i <= Len(table.rows)
    /\ \E e \in {EvalRow(table.columns, table.rows[row_i], hdip_col, load_col,
                         std_df)} :
        IF e.checked
        THEN \E c \in {Tally(e.ok, passed, failed, failed_tests,
                             e.detail.Test)} :
                /\ detailed_data' = Append(detailed_data, e.detail)
                /\ passed' = c.passed
                /\ failed' = c.failed
                /\ failed_tests' = c.failed_tests
        ELSE UNCHANGED <<detailed_data, passed, failed, failed_tests>>
    /\ row_i' = row_i + 1
    /\ UNCHANGED <<vessel_xls, std_xls, pc, sheet_i, table, product, std_df,
                   hdip_col, load_col, summary, detailed_results, output>>
    /\ UNCHANGED helperVars

-----------------------------------------------------------------------------
(* process_vessel_file: the summary of lines 120-125                       *)

\* Line 120
Overall(f) == IF f = 0 THEN PASS ELSE FAIL

\* Line 121 with the passed tests alone as Tests Checked.
SummaryRowPassedOnly(sheet_name, prod, p, f, ft) ==
    [SheetName |-> sheet_name, Product |-> prod, TestsChecked |-> p,
     Passed |-> p, Failed |-> f, Overall |-> Overall(f),
     FailedTests |-> Join(<<",", " ">>, ft)]

\* Line 121
SummaryRow(sheet_name, prod, p, f, ft) ==
    [SheetName |-> sheet_name, Product |-> prod, TestsChecked |-> p + f,
     Passed |-> p, Failed |-> f, Overall |-> Overall(f),
     FailedTests |-> Join(<<",", " ">>, ft)]

\* d[key] = value on a dict kept as the sequence of its items
DictSet(d, key, value) ==
    IF \E i \in 1..Len(d) : d[i].key = key
    THEN [i \in 1..Len(d) |->
             IF d[i].key = key THEN [key |-> key, value |-> value] ELSE d[i]]
    ELSE Append(d, [key |-> key, value |-> value])

FinishSheet ==
    /\ pc = "rows"
    /\ row_i > Len(table.rows)
    /\ summary' = Append(summary,
           SummaryRow(Sheet.name, product, passed, failed, failed_tests))
    /\ detailed_results' = DictSet(detailed_results, Sheet.name, detailed_data)
    /\ sheet_i' = sheet_i + 1
    /\ pc' = "sheets"
    /\ UNCHANGED <<vessel_xls, std_xls, row_i, table, product, std_df,
                   hdip_col, load_col, passed, failed, failed_tests,
                   detailed_data, output>>
    /\ UNCHANGED helperVars

-----------------------------------------------------------------------------
(* process_vessel_file: the output workbook of lines 127-139               *)

\* Longest sheet title the slice of line 136 keeps.
SheetTitleLimit == 31

\* name[:31]
Truncate(name) == SubSeq(name, 1, Min2(SheetTitleLimit, Len(name)))

\* df.to_excel(writer, index=False, sheet_name=title) on an ExcelWriter in
\* write mode: a title the workbook already holds is not created again, the
\* cells are written onto the sheet of that title (both tables have seven
\* columns, so whole rows are replaced, the rows below staying).
to_excel(book, title, rows) ==
    IF \E i \in 1..Len(book) : book[i].title = title
    THEN [i \in 1..Len(book) |->
             IF book[i].title = title
             THEN [title |-> title,
                   rows |-> rows \o SubSeq(book[i].rows, Len(rows) + 1,
                                           Len(book[i].rows))]
             ELSE book[i]]
    ELSE Append(book, [title |-> title, rows |-> rows])

SummaryHeader == [header |-> "Summary"]
DetailHeader == [header |-> "Detail"]

\* The loop of lines 135-136 over the first n items of the dict.
RECURSIVE WriteDetails(_, _, _)
WriteDetails(book, d, n) ==
    IF n = 0 THEN book
    ELSE to_excel(WriteDetails(book, d, n - 1), Truncate(d[n].key),
                  <<DetailHeader>> \o d[n].value)

WriteOutput ==
    /\ pc = "sheets"
    /\ sheet_i > Len(vessel_xls)
    /\ output' = WriteDetails(
           to_excel(<<>>, SUMMARY, <<SummaryHeader>> \o summary),
           detailed_results, Len(detailed_results))
    /\ pc' = "done"
    /\ UNCHANGED <<vessel_xls, std_xls, sheet_i, row_i, table, product,
                   std_df, hdip_col, load_col, passed, failed, failed_tests,
                   detailed_data, summary, detailed_results>>
    /\ UNCHANGED helperVars

-----------------------------------------------------------------------------
(* Inputs                                                                  *)

\* All sequences over S of length at most n.
SeqsUpTo(S, n) == UNION {[1..m -> S] : m \in 0..n}

MaxTextLen == 3      \* longest generated cell text
MaxMagnitude == 2    \* largest mantissa of the generated bounds and values
MaxTokens == 2       \* most tokens in a generated sheet name
MaxCandidates == 2   \* most candidates handed to the matcher
MaxRows == 2         \* most data rows in the generated sheet
MaxSheets == 2       \* most sheets in the generated vessel workbook

\* Cell texts: every text over these characters, and the documented samples.
TextAlphabet == {"<", ">", " ", "-", ".", "/", "0", "5", "a", "n"}
SampleTexts ==
    {<<"<", "0", ".", "0", "5">>, <<">", "0", ".", "0", "5">>,
     <<" ", "<", " ", "5", ".", "5", " ">>, <<"N", "a", "N">>,
     <<"5", "<", ">", "0", "5">>}
NumericInputs ==
    {Str(s) : s \in SeqsUpTo(TextAlphabet, MaxTextLen) \cup SampleTexts}
    \cup {IntVal(n) : n \in -1..5}
    \cup {Float(m, 1) : m \in -1..5}
    \cup {NaN, None}

Floats == {Float(m, e) : m \in (0 - MaxMagnitude)..MaxMagnitude, e \in 0..1}
CompareInputs == (Floats \cup {NaN}) \X (Floats \cup {NaN, None})
                     \X (Floats \cup {NaN, None})

NameTokens ==
    {MOGAS, RON, HSD, DIESEL, JET, FUEL, HOBC, OCTANE, <<"9", "2">>,
     <<"9", "5">>, <<" ">>, <<"m", "o", "g", "a", "s">>, <<"J", "e", "t">>,
     <<"h", "s">>, <<"d">>, <<"C", "a", "r", "g", "o">>}
RECURSIVE Concat(_)
Concat(parts) == IF parts = <<>> THEN <<>> ELSE Head(parts) \o Concat(Tail(parts))
SheetNameInputs == {Concat(ts) : ts \in SeqsUpTo(NameTokens, MaxTokens)}

MatchWords ==
    {<<"a", "b">>, <<"a", "b", "d">>, <<"b", "c">>, <<"d">>}
MatchPool ==
    {<<"a", "b", "c">>, <<"a", "b", "d">>, <<"a", "b">>, <<"c", "a", "b">>,
     <<"b">>, <<"c">>, <<"b", "c", "d", "d">>, <<"d", "d", "d">>}
MatchInputs ==
    [word : MatchWords, possibilities : SeqsUpTo(MatchPool, MaxCandidates),
     cutoff : {ProductCutoff, TestCutoff}]

\* The standards table used for every product.
Flash == <<"F", "l", "a", "s", "h">>
Water == <<"W", "a", "t", "e", "r">>
Color == <<"C", "o", "l", "o", "r">>
Odour == <<"O", "d", "o", "u", "r">>
Celsius == Str(<<"C">>)
StdTable ==
    <<[Parameter |-> Str(Flash), Min |-> IntVal(54), Max |-> NaN,
       Unit |-> Celsius],
      [Parameter |-> Str(Water), Min |-> IntVal(0),
       Max |-> Str(<<"0", ".", "0", "5">>), Unit |-> Str(<<"%">>)],
      [Parameter |-> Str(Color), Min |-> NaN, Max |-> NaN, Unit |-> NaN],
      [Parameter |-> Str(Odour), Min |-> Str(<<"N", "D">>),
       Max |-> Str(<<"-">>), Unit |-> NaN]>>

SKO == <<"S", "K", "O">>
JET_A1 == <<"J", "E", "T", " ", "A", "-", "1">>
CatalogA ==
    <<[key |-> MOGAS, df |-> StdTable], [key |-> HSD, df |-> StdTable],
      [key |-> SKO, df |-> StdTable]>>
CatalogB ==
    <<[key |-> JET_A1, df |-> StdTable], [key |-> HSD, df |-> StdTable]>>
Catalogs == {CatalogA, CatalogB}

\* Grid rows of three cells.
HeaderHdip ==
    <<Str(TESTS_DESCRIPTION),
      Str(<<"H", "D", "I", "P", " ", "R", "e", "s", "u", "l", "t">>),
      Str(<<"L", "o", "a", "d", " ", "R", "e", "s", "u", "l", "t">>)>>
HeaderOneResult ==
    <<Str(<<" ", "T", "e", "s", "t", "s", "\n", "D", "e", "s", "c", "r", "i",
            "p", "t", "i", "o", "n">>),
      Str(<<"R", "E", "S", "U", "L", "T">>), NaN>>
HeaderNoResult ==
    <<Str(<<"T", "e", "s", "t", " ", "M", "e", "t", "h", "o", "d">>),
      Str(<<"V", "a", "l", "u", "e">>), Str(<<"L", "i", "m", "i", "t">>)>>
HeaderNoDescription ==
    <<Str(<<"M", "e", "t", "h", "o", "d">>),
      Str(<<"R", "e", "s", "u", "l", "t", " ", "1">>),
      Str(<<"R", "e", "s", "u", "l", "t", " ", "2">>)>>
TitleRow == <<Str(<<"L", "a", "b">>), NaN, IntVal(7)>>
BlankRow == <<NaN, NaN, NaN>>

FlashPt == Flash \o <<" ", "P", "t">>
Descriptions ==
    {Str(FlashPt), Str(Water \o <<" ">>), Str(Color), Str(Odour), NaN}
PrimaryCells ==
    {IntVal(54), Str(<<"<", "0", ".", "0", "5">>), NaN, Str(<<"N", "D">>)}
DataRows ==
    {<<d, v, NaN>> : d \in Descriptions, v \in PrimaryCells}
    \cup {<<Str(Water), IntVal(54), IntVal(12)>>,
          <<Str(<<" ">>), IntVal(54), NaN>>,
          <<Str(<<"S", "u", "l", "f", "u", "r">>), IntVal(54), NaN>>,
          BlankRow}

HSD_1 == HSD \o <<" ", "1">>
RowWorkbooks ==
    {<<[name |-> HSD_1, raw |-> <<TitleRow, HeaderHdip>> \o rows]>> :
        rows \in SeqsUpTo(DataRows, MaxRows)}

PassRow == <<Str(FlashPt), IntVal(54), NaN>>
FailRow == <<Str(Water), IntVal(54), NaN>>
SheetGrids ==
    {<<TitleRow, HeaderHdip, PassRow>>,
     <<TitleRow, PassRow>>,
     <<BlankRow, HeaderNoResult, PassRow>>,
     <<HeaderOneResult, FailRow, BlankRow>>,
     <<HeaderNoDescription, PassRow>>}
SheetNames ==
    {HSD_1, SUMMARY, <<"J", "e", "t", " ", "A", "1">>}
Sheets == [name : SheetNames, raw : SheetGrids]
\* A workbook's sheet names are distinct.
SheetWorkbooks ==
    {wb \in SeqsUpTo(Sheets, MaxSheets) :
        \A i, j \in 1..Len(wb) : i # j => wb[i].name # wb[j].name}

-----------------------------------------------------------------------------
(* Specifications                                                          *)

EngineIdle ==
    /\ vessel_xls = <<>>
    /\ std_xls = <<>>
    /\ pc = "idle"
    /\ sheet_i = 1
    /\ row_i = 1
    /\ table = None
    /\ product = None
    /\ std_df = None
    /\ hdip_col = None
    /\ load_col = None
    /\ passed = 0
    /\ failed = 0
    /\ failed_tests = <<>>
    /\ detailed_data = <<>>
    /\ summary = <<>>
    /\ detailed_results = <<>>
    /\ output = <<>>

\* process_vessel_file at line 64, lines 59-62 done.
EngineStart(workbooks, catalogs) ==
    /\ fn = "process_vessel_file"
    /\ arg = None
    /\ ret = Pending
    /\ vessel_xls \in workbooks
    /\ std_xls \in catalogs
    /\ pc = "sheets"
    /\ sheet_i = 1
    /\ row_i = 1
    /\ table = None
    /\ product = None
    /\ std_df = None
    /\ hdip_col = None
    /\ load_col = None
    /\ passed = 0
    /\ failed = 0
    /\ failed_tests = <<>>
    /\ detailed_data = <<>>
    /\ summary = <<>>
    /\ detailed_results = <<>>
    /\ output = <<>>

EngineNext ==
    \/ SkipNoTable
    \/ SkipNoStandard
    \/ SkipNoResultColumn
    \/ BeginSheet
    \/ ProcessRow
    \/ FinishSheet
    \/ WriteOutput

\* One run over a one-sheet workbook with every choice of data rows.
Init == EngineStart(RowWorkbooks, {CatalogA})
Next == \/ BeginSheet
        \/ ProcessRow
        \/ FinishSheet
        \/ WriteOutput
Spec == Init /\ [][Next]_vars

\* One run over every workbook of up to MaxSheets sheets.
InitSheets == EngineStart(SheetWorkbooks, Catalogs)
SpecSheets == InitSheets /\ [][EngineNext]_vars

HelperStart(name, inputs) ==
    /\ fn = name
    /\ arg \in inputs
    /\ ret = Pending
    /\ EngineIdle

CallCleanNumeric ==
    /\ fn = "clean_numeric"
    /\ ret = Pending
    /\ ret' = clean_numeric(arg)
    /\ UNCHANGED <<fn, arg, engineVars>>
InitNumeric == HelperStart("clean_numeric", NumericInputs)
SpecNumeric == InitNumeric /\ [][CallCleanNumeric]_vars

CallCompareValue ==
    /\ fn = "compare_value"
    /\ ret = Pending
    /\ ret' = [k |-> "bool", v |-> compare_value(arg[1], arg[2], arg[3])]
    /\ UNCHANGED <<fn, arg, engineVars>>
InitCompare == HelperStart("compare_value", CompareInputs)
SpecCompare == InitCompare /\ [][CallCompareValue]_vars

CallExtractProduct ==
    /\ fn = "extract_product_from_sheetname"
    /\ ret = Pending
    /\ ret' = Str(extract_product_from_sheetname(arg))
    /\ UNCHANGED <<fn, arg, engineVars>>
InitClassify == HelperStart("extract_product_from_sheetname", SheetNameInputs)
SpecClassify == InitClassify /\ [][CallExtractProduct]_vars

CallGetCloseMatches ==
    /\ fn = "get_close_matches"
    /\ ret = Pending
    /\ ret' = [k |-> "list",
               v |-> get_close_matches(arg.word, arg.possibilities, arg.cutoff)]
    /\ UNCHANGED <<fn, arg, engineVars>>
InitMatch == HelperStart("get_close_matches", MatchInputs)
SpecMatch == InitMatch /\ [][CallGetCloseMatches]_vars

-----------------------------------------------------------------------------
(* Properties                                                              *)

SummaryRows == {summary[i] : i \in 1..Len(summary)}
Count(seq, Test(_)) == Cardinality({i \in 1..Len(seq) : Test(seq[i])})

\* C1: every summary row has Tests Checked = Passed + Failed, and its
\* Overall Result is FAIL exactly when Failed > 0 and PASS otherwise.
C1_SummaryRowConsistent ==
    \A r \in SummaryRows :
        /\ r.TestsChecked = r.Passed + r.Failed
        /\ r.Overall = FAIL <=> r.Failed > 0
        /\ r.Overall = PASS <=> r.Failed = 0

\* A sheet was summarised with both passing and failing tests.
C1_Witness == \E r \in SummaryRows : r.Passed > 0 /\ r.Failed > 0

\* What the claims call a cell that holds a number: a numeric cell, or a text
\* that is a decimal numeral once "<", ">" and the surrounding blanks are
\* removed.  A blank cell, a missing cell and any other text hold none.
IsNumeral(s) ==
    /\ \E i \in 1..Len(s) : InSeq(s[i], Digits)
    /\ \A i \in 1..Len(s) : InSeq(s[i], Digits) \/ s[i] = "."
    /\ Cardinality({i \in 1..Len(s) : s[i] = "."}) <= 1
HoldsNumber(cell) ==
    \/ cell.k \in {"int", "float"}
    \/ /\ cell.k = "str"
       /\ LET s == Strip(RemoveChar(RemoveChar(cell.s, "<"), ">"))
          IN IsNumeral(IF s # <<>> /\ Head(s) = "-" THEN Tail(s) ELSE s)

\* The rows of the current table the loop has been through, by what the
\* claim says of them.
RowName(r) ==
    Strip(PyStr(RowGet(table.columns, table.rows[r], TESTS_DESCRIPTION,
                       Str(<<>>))))
RowMatch(r) == get_close_matches(RowName(r), Parameters(std_df), TestCutoff)
RowMatched(r) == RowName(r) # <<>> /\ RowMatch(r) # <<>>
RowMeasured(r) ==
    /\ HoldsNumber(RowGet(table.columns, table.rows[r], hdip_col.s, None))
    /\ \/ HoldsNumber(SpecRow(std_df, RowMatch(r)[1]).Min)
       \/ HoldsNumber(SpecRow(std_df, RowMatch(r)[1]).Max)
RowsDone == 1..(row_i - 1)

\* C2: of the rows whose description matched a parameter, exactly those with
\* a numeric primary result and at least one bound present have a DetailRow
\* and count as passed or failed; the others change nothing.
C2_DetailIffMeasuredAndBounded ==
    pc = "rows" =>
        LET n == Cardinality({r \in RowsDone : RowMatched(r) /\ RowMeasured(r)})
        IN /\ Len(detailed_data) = n
           /\ passed + failed = n
           /\ Len(failed_tests) = failed

\* The value as an integer number of tenths (the generated floats have at
\* most one decimal).
Tenths(x) == x.m * Pow10(1 - x.e)
Below(x, y) == x.k = "float" /\ y.k = "float" /\ Tenths(x) < Tenths(y)

\* C3: compare_value fails exactly when a present min is above the value or a
\* present max is below it; a value on a bound passes, an absent bound does
\* not constrain, and with both bounds absent the result is PASS.
C3_CompareValue ==
    ret # Pending =>
        /\ ret.v = FALSE <=>
              \/ arg[2] # None /\ Below(arg[1], arg[2])
              \/ arg[3] # None /\ Below(arg[3], arg[1])
        /\ arg[2] = None /\ arg[3] = None => ret.v
        /\ arg[1] = arg[2] /\ arg[3] \in {None, arg[1]} => ret.v
        /\ arg[1] = arg[3] /\ arg[2] = None => ret.v

\* A value below its minimum was failed although it is under the maximum.
C3_Witness ==
    /\ ret # Pending
    /\ ~ret.v
    /\ Below(arg[1], arg[2])
    /\ Below(arg[1], arg[3])

\* C4: clean_numeric returns None for every input that holds no decimal
\* number (other text, a blank cell, a missing cell) and the number otherwise;
\* "<0.05" and ">0.05" give 0.05 and the number 5 gives 5.0.
C4_AbsentUnlessDecimal ==
    ret # Pending =>
        /\ ret = None <=> ~HoldsNumber(arg)
        /\ ret # None => ret.k = "float"
        /\ arg \in {Str(<<"<", "0", ".", "0", "5">>),
                    Str(<<">", "0", ".", "0", "5">>)} => ret = Float(5, 2)
        /\ arg = IntVal(5) => ret = Float(5, 0)

\* The sheets the loop of line 64 is through with, and what the claim says
\* of a sheet: it is skipped when no row of its grid holds "description" or
\* "method", when no catalog key is similar enough to its product, or when
\* no column name of its table holds "result".
SheetsDone == SubSeq(vessel_xls, 1, sheet_i - 1)
HeaderRows(raw) == {i \in 1..Len(raw) : IsHeaderRow(RowStr(raw[i]))}
NoHeaderRow(raw) == HeaderRows(raw) = {}
NoSimilarKey(name) ==
    \A i \in 1..Len(std_xls) :
        ~AtLeast(ratio(std_xls[i].key, extract_product_from_sheetname(name)),
                 ProductCutoff)
NoResultCell(header) ==
    \A c \in 1..Len(header) : ~Contains(Lower(PyStr(header[c])), RESULT)
NoResultColumn(raw) == NoResultCell(raw[SetMin(HeaderRows(raw))])
SkippedByClaim(sheet) ==
    \/ NoHeaderRow(sheet.raw)
    \/ NoSimilarKey(sheet.name)
    \/ NoResultColumn(sheet.raw)
KeptNames ==
    LET kept == SelectSeq(SheetsDone, LAMBDA s : ~SkippedByClaim(s))
    IN [i \in 1..Len(kept) |-> kept[i].name]

\* C5: the sheets that got a summary row and a detail table are exactly the
\* sheets the three skip conditions spare, one row and one table each, in
\* workbook order; a skipped sheet leaves nothing and stops nothing.
C5_SkippedExactly ==
    \E kept \in {KeptNames} :
        /\ [i \in 1..Len(summary) |-> summary[i].SheetName] = kept
        /\ [i \in 1..Len(detailed_results) |-> detailed_results[i].key] = kept

\* A run ended in which the first sheet was skipped and the second was
\* summarised though none of its rows gave a detail row.
C5_Witness ==
    /\ pc = "done"
    /\ Len(vessel_xls) = 2
    /\ SkippedByClaim(vessel_xls[1])
    /\ Len(summary) = 1
    /\ summary[1].SheetName = vessel_xls[2].name
    /\ summary[1].TestsChecked = 0
    /\ detailed_results[1].value = <<>>

\* C6: the product follows from the upper-cased name by the first rule that
\* applies: MOGAS (92 or else 95) before HSD/DIESEL before JET before
\* HOBC/OCTANE, and UNKNOWN when no rule applies.
C6_FirstRuleWins ==
    ret # Pending =>
        LET u == Upper(arg)
            mogas == Contains(u, MOGAS)
            hsd == Contains(u, HSD) \/ Contains(u, DIESEL)
            jet == Contains(u, JET)
            hobc == Contains(u, HOBC) \/ Contains(u, OCTANE)
        IN /\ mogas /\ Contains(u, <<"9", "2">>) => ret.s = MOGAS_92_RON
           /\ mogas /\ ~Contains(u, <<"9", "2">>) => ret.s = MOGAS_95_RON
           /\ ~mogas /\ hsd => ret.s = HSD
           /\ ~mogas /\ ~hsd /\ jet => ret.s = JET_FUEL
           /\ ~mogas /\ ~hsd /\ ~jet /\ hobc => ret.s = HOBC
           /\ ~mogas /\ ~hsd /\ ~jet /\ ~hobc => ret.s = UNKNOWN

\* A name holding MOGAS and a keyword of a later rule was classified as MOGAS.
C6_Witness ==
    /\ ret # Pending
    /\ ret.s = MOGAS_95_RON
    /\ \/ Contains(Upper(arg), HSD)
       \/ Contains(Upper(arg), JET)
       \/ Contains(Upper(arg), OCTANE)

Products == {MOGAS_92_RON, MOGAS_95_RON, HSD, JET_FUEL, HOBC, UNKNOWN}
HasKeyword(u) ==
    \E w \in {MOGAS, HSD, DIESEL, JET, HOBC, OCTANE} : Contains(u, w)

\* C10: the result is one of the six products; a name the pattern of line 27
\* matches holds a keyword of lines 18-24, so the fallback only ever returns
\* UNKNOWN.
C10_SixProducts ==
    ret # Pending =>
        /\ ret.s \in Products
        /\ re_search(Upper(arg)) # None => HasKeyword(Upper(arg))
        /\ ~HasKeyword(Upper(arg)) => ret.s = UNKNOWN

\* The fallback was reached with a name that holds the tail of a pattern
\* (RON or FUEL) and no keyword.
C10_Witness ==
    /\ ret # Pending
    /\ ret.s = UNKNOWN
    /\ ~HasKeyword(Upper(arg))
    /\ Contains(Upper(arg), RON) \/ Contains(Upper(arg), FUEL)

\* The matcher's inputs and scores, for the matcher specification.
Cands == arg.possibilities
Score(i) == ratio(Cands[i], arg.word)
Passing == {i \in 1..Len(Cands) : AtLeast(Score(i), arg.cutoff)}
Best == {i \in Passing : \A j \in Passing : ~ScoreLess(Score(i), Score(j))}

\* C7 as claimed: the best candidate at or above the cutoff, none when all
\* are below, and among several best ones the first in candidate order.
C7_FirstSeenWins ==
    ret # Pending =>
        ret.v = IF Passing = {} THEN <<>> ELSE <<Cands[SetMin(Best)]>>

\* C7 as amended: the best candidate at or above the cutoff, none when all
\* are below, and among several best ones the greatest string in code point
\* order, wherever it stands in the candidate order.
C7_GreatestStringWins ==
    ret # Pending =>
        /\ ret.v = <<>> <=> Passing = {}
        /\ Passing # {} =>
              /\ Len(ret.v) = 1
              /\ \E i \in Best : Cands[i] = ret.v[1]
              /\ \A j \in Best : ~StrLess(ret.v[1], Cands[j])

\* Two different candidates tied for the best score and the later one was
\* returned.
C7_Witness ==
    /\ ret # Pending
    /\ \E i, j \in Best :
        /\ i < j
        /\ Cands[i] # Cands[j]
        /\ ret.v = <<Cands[j]>>
        /\ \A n \in Best : Cands[n] # Cands[j] => n < j

\* C8: the written workbook holds the Summary table and, for each processed
\* sheet, a table of its own under the first 31 characters of the sheet name:
\* N + 1 tables for N processed sheets, none written over another.
C8_OneTablePerSheet ==
    pc = "done" =>
        /\ Len(output) = Len(detailed_results) + 1
        /\ \E i \in 1..Len(output) :
              /\ output[i].title = SUMMARY
              /\ output[i].rows = <<SummaryHeader>> \o summary
        /\ \A n \in 1..Len(detailed_results) :
              \E i \in 1..Len(output) :
                  /\ output[i].title = Truncate(detailed_results[n].key)
                  /\ output[i].rows =
                         <<DetailHeader>> \o detailed_results[n].value

IsPass(d) == d.Status = PASS
IsFail(d) == d.Status = FAIL
DetailsOf(name) ==
    detailed_results[SetMin({i \in 1..Len(detailed_results) :
                                detailed_results[i].key = name})].value
TestsOf(rows) == [i \in 1..Len(rows) |-> rows[i].Test]

\* C9: a summary row agrees with the sheet's detail table: Tests Checked is
\* the number of detail rows, Passed and Failed count the PASS and FAIL rows,
\* Failed Tests joins the Test of the FAIL rows in order, and rows with the
\* same primary result and bounds have the same status whatever their load
\* port result.
C9_SummaryMatchesDetail ==
    \A r \in SummaryRows :
        LET d == DetailsOf(r.SheetName) IN
        /\ r.TestsChecked = Len(d)
        /\ r.Passed = Count(d, IsPass)
        /\ r.Failed = Count(d, IsFail)
        /\ r.FailedTests = Join(<<",", " ">>, TestsOf(SelectSeq(d, IsFail)))
        /\ \A i, j \in 1..Len(d) :
              d[i].HDIP = d[j].HDIP /\ d[i].Min = d[j].Min
                  /\ d[i].Max = d[j].Max
              => d[i].Status = d[j].Status

\* A sheet was summarised whose detail rows hold a failed test next to a row
\* that differs from another only in its load port result.
C9_Witness ==
    \E r \in SummaryRows :
        /\ r.Failed > 0
        /\ \E i, j \in 1..Len(DetailsOf(r.SheetName)) :
              /\ DetailsOf(r.SheetName)[i].HDIP = DetailsOf(r.SheetName)[j].HDIP
              /\ DetailsOf(r.SheetName)[i].Min = DetailsOf(r.SheetName)[j].Min
              /\ DetailsOf(r.SheetName)[i].Load # DetailsOf(r.SheetName)[j].Load

====
